---- MODULE Spec2Model ----
(***************************************************************************)
(* The batch endpoint of the Unpaywall simple query tool (src/main.py):    *)
(* DoiRequest validates the length of the request list; process_dois fans  *)
(* one fetch_doi_data coroutine out per requested DOI under an             *)
(* asyncio.Semaphore, gathers the results in request order and merges them *)
(* into the keyed mapping, the error mapping, the counts and the jsonl and *)
(* csv encodings.                                                          *)
(*                                                                         *)
(* Spec is one call against an upstream that answers in six ways;          *)
(* LiveSpec adds fair scheduling; ProjectionSpec is a one-DOI call against *)
(* an upstream that answers with records of many shapes, for the table     *)
(* projection; ConcurrentSpec runs a second call beside the first.         *)
(*                                                                         *)
(* Python strings are TLA+ strings.  A JSON value is a tagged record       *)
(* (JNull, JStr, JBool, JObj); a Python dict is a function from its keys.  *)
(***************************************************************************)
EXTENDS Integers, Sequences, FiniteSets, TLC

\* ------------------------------------------------------------- bounds

\* Longest request list the validator accepts in the model.
MaxN == 3

\* Semaphore size.  main.py sets 100; the model runs the same code with a
\* small cap so that request lists longer than the cap are explored.
MAX_CONCURRENT_REQUESTS == 2

\* ------------------------------------------------------------- JSON values

JNull == [t |-> "null"]
JStr(s) == [t |-> "str", v |-> s]
JBool(b) == [t |-> "bool", v |-> b]
JObj(f) == [t |-> "obj", v |-> f]

\* {} : the empty dict.
EmptyDict == << >>

\* d.get(key, default)
Get(d, key, default) == IF key \in DOMAIN d THEN d[key] ELSE default

\* d[key] = value
Put(d, key, value) ==
  [x \in (DOMAIN d) \cup {key} |-> IF x = key THEN value ELSE d[x]]

\* StartsWith comparing one character too few.
StartsWithShort(s, prefix) ==
  /\ Len(s) >= Len(prefix) - 1
  /\ SubSeq(s, 1, Len(prefix) - 1) = SubSeq(prefix, 1, Len(prefix) - 1)

\* s.startswith(prefix)
StartsWith(s, prefix) ==
  /\ Len(s) >= Len(prefix)
  /\ SubSeq(s, 1, Len(prefix)) = prefix

\* ------------------------------------------------------------- requests

\* The identifiers a request list is drawn from: two spellings of one DOI
\* that differ in case, a string that is not a DOI, and a string that is a
\* proper prefix of "10.".
Identifiers == <<"10.a", "10.A", "not-a-doi", "10">>

IdentifierSet == {Identifiers[k] : k \in 1..Len(Identifiers)}

\* MAX_DOIS_PER_REQUEST.  main.py sets 1000; the model runs the same
\* validator with a small maximum so that longer lists are explored.
MAX_DOIS_PER_REQUEST == MaxN

\* The "dois" of a request body: every list of identifiers up to one longer
\* than the maximum.
RequestLists == UNION {[1..n -> IdentifierSet] : n \in 0..(MAX_DOIS_PER_REQUEST + 1)}

\* validate_dois_count with >= in place of >.
TooManyFromMaximum(value) == Len(value) >= MAX_DOIS_PER_REQUEST

\* DoiRequest.validate_dois_count raises ValueError.
TooMany(value) == Len(value) > MAX_DOIS_PER_REQUEST

\* ------------------------------------------------------------- upstream

LowerChar(c) == IF c = "A" THEN "a" ELSE c

RECURSIVE Lower(_)
\* The DOI as the upstream spells it: DOIs are case-insensitive and the
\* upstream answers with the lower-case form.
Lower(s) ==
  IF Len(s) = 0 THEN s
  ELSE LowerChar(SubSeq(s, 1, 1)) \o Lower(SubSeq(s, 2, Len(s)))

\* A full record for the DOI doi, as a 2xx response carries it.
FullRecord(doi) ==
  [doi |-> JStr(Lower(doi)),
   is_oa |-> JBool(TRUE),
   best_oa_location |-> JObj([url |-> JStr("u"), url_for_pdf |-> JStr("p")])]

\* A record that holds nothing but its "doi".
BareRecord(doi) == [doi |-> JStr(Lower(doi))]

\* A JSON object that has no "doi".
NoDoiObject == [is_oa |-> JBool(FALSE)]

\* What `await client.get(...)`, raise_for_status() and response.json() can
\* do for one call: a 2xx response with one of the JSON objects above, a
\* non-2xx status, a transport failure (connection, timeout), or any other
\* exception (a body that is not JSON).
UpstreamResponses(doi) ==
  << [kind |-> "json", body |-> FullRecord(doi)],
     [kind |-> "json", body |-> BareRecord(doi)],
     [kind |-> "json", body |-> NoDoiObject],
     [kind |-> "status", code |-> 404],
     [kind |-> "transport"],
     [kind |-> "other"] >>

\* The number of things a call can do.
ResponseCount == Len(UpstreamResponses(""))

\* What a record can hold under "best_oa_location": nothing (the key is
\* absent), null, an object with or without "url" and "url_for_pdf", the
\* latter a string, the empty string or null; and last a value that is no
\* object, which the upstream's record shape does not have.
BestLocations ==
  << EmptyDict,
     [best_oa_location |-> JNull],
     [best_oa_location |-> JObj(EmptyDict)],
     [best_oa_location |-> JObj([url |-> JStr("u")])],
     [best_oa_location |-> JObj([url_for_pdf |-> JStr("p")])],
     [best_oa_location |-> JObj([url |-> JStr("u"), url_for_pdf |-> JStr("p")])],
     [best_oa_location |-> JObj([url |-> JStr("u"), url_for_pdf |-> JStr("")])],
     [best_oa_location |-> JObj([url |-> JStr("u"), url_for_pdf |-> JNull])],
     [best_oa_location |-> JObj([url |-> JStr("u"), evidence |-> JStr("e")])],
     [best_oa_location |-> JStr("x")] >>

\* What a record can hold of the other projected fields: none, some, with
\* values or null.
PlainValues ==
  << EmptyDict,
     [is_oa |-> JBool(TRUE)],
     [is_oa |-> JNull],
     [is_oa |-> JBool(FALSE), publisher |-> JStr("pub")],
     [publisher |-> JStr("")],
     [oa_status |-> JStr("gold"), genre |-> JStr("g"), not_projected |-> JStr("n")] >>

\* The record for doi that holds the fields of best and of plain.
RecordOf(doi, best, plain) == [doi |-> JStr(Lower(doi))] @@ best @@ plain

\* The records a 2xx response can carry for doi, numbered.
RecordCount == Len(BestLocations) * Len(PlainValues)

Record(doi, r) ==
  RecordOf(doi,
           BestLocations[((r - 1) % Len(BestLocations)) + 1],
           PlainValues[((r - 1) \div Len(BestLocations)) + 1])

\* ------------------------------------------------------------- fetch_doi_data

\* The early return of fetch_doi_data: the identifier fails the prefix rule.
InvalidFormat(doi) == ~StartsWith(doi, "10.")

InvalidFormatResult(doi) ==
  [doi |-> JStr(doi),
   error |-> JStr("Invalid DOI format"),
   message |-> JStr("DOI must start with '10.'")]

\* FetchResult without the last `except Exception`: the exception leaves.
FetchResultRaising(doi, resp) ==
  CASE resp.kind = "json" -> resp.body
    [] resp.kind = "status" ->
         [doi |-> JStr(doi),
          error |-> JStr("HTTP error: " \o ToString(resp.code)),
          message |-> JStr("str(e)")]
    [] resp.kind = "transport" ->
         [doi |-> JStr(doi),
          error |-> JStr("Request error"),
          message |-> JStr("str(e)")]
    [] resp.kind = "other" -> [raised |-> TRUE]

\* The try/except of fetch_doi_data applied to what the call did.
FetchResult(doi, resp) ==
  CASE resp.kind = "json" -> resp.body
    [] resp.kind = "status" ->
         [doi |-> JStr(doi),
          error |-> JStr("HTTP error: " \o ToString(resp.code)),
          message |-> JStr("str(e)")]
    [] resp.kind = "transport" ->
         [doi |-> JStr(doi),
          error |-> JStr("Request error"),
          message |-> JStr("str(e)")]
    [] resp.kind = "other" ->
         [doi |-> JStr(doi),
          error |-> JStr("Unexpected error"),
          message |-> JStr("str(e)")]

\* ------------------------------------------------------------- state

VARIABLES
  dois,      \* request.dois, the request list
  pc,        \* the request: "validate" (DoiRequest being built), "rejected",
             \* "gather" (process_dois awaiting asyncio.gather), "returned", "failed"
  task,      \* per position: "new", "waiting", "woken", "inflight", "done"
  sem,       \* semaphore._value
  waiters,   \* semaphore._waiters, positions in arrival order
  outcome,   \* per position: what its fetch_with_semaphore task returned
  calls,     \* per position: the number of client.get calls it made
  overtaken, \* some task finished while one at an earlier position had not
  payload,   \* the dict process_dois returns
  peer_sem   \* semaphore._value of another process_dois call of the process

vars == <<dois, pc, task, sem, waiters, outcome, calls, overtaken, payload, peer_sem>>

Positions == 1..Len(dois)

\* A task that has not returned yet has no result.
Pending == [pending |-> TRUE]

\* An exception that left the task instead of a result.
Raised == [raised |-> TRUE]

\* process_dois has not returned.
NoPayload == [none |-> TRUE]

Init ==
  /\ dois \in RequestLists
  /\ pc = "validate"
  /\ task = [i \in 1..Len(dois) |-> "new"]
  /\ sem = MAX_CONCURRENT_REQUESTS
  /\ waiters = << >>
  /\ outcome = [i \in 1..Len(dois) |-> Pending]
  /\ calls = [i \in 1..Len(dois) |-> 0]
  /\ overtaken = FALSE
  /\ payload = NoPayload
  /\ peer_sem = MAX_CONCURRENT_REQUESTS

\* ------------------------------------------------------------- DoiRequest

\* The request body is validated before process_dois is called: a list
\* that is too long is rejected and the call never starts.
Validate ==
  /\ pc = "validate"
  /\ pc' = IF TooMany(dois) THEN "rejected" ELSE "gather"
  /\ UNCHANGED <<dois, task, sem, waiters, outcome, calls, overtaken, payload, peer_sem>>

\* ------------------------------------------------------------- asyncio.Semaphore

\* The semaphore of process_dois, as CPython's asyncio implements it: a
\* counter and a FIFO queue of waiters; release() hands the slot to the first
\* waiter that is still asleep.

\* Locked for a semaphore that never refuses.
LockedNever == FALSE

\* Semaphore.locked(): no slot is free, or a waiter is queued.
Locked == sem = 0 \/ Len(waiters) > 0

\* The queued positions whose future is not done yet, in queue order, when
\* the tasks are in the states tk.
Sleeping(tk) == SelectSeq(waiters, LAMBDA i : tk[i] = "waiting")

\* WakeUpNext that wakes nobody.
WakeUpNobody(s) == s

\* Semaphore._wake_up_next() on s = [task, sem]: the first waiter still
\* asleep is given a slot and woken; nothing happens when there is none.
WakeUpNext(s) ==
  IF Len(Sleeping(s.task)) > 0
    THEN [task |-> [s.task EXCEPT ![Head(Sleeping(s.task))] = "woken"],
          sem |-> s.sem - 1]
    ELSE s

\* Semaphore.release(): the slot goes back, then _wake_up_next().
Release(s) == WakeUpNext([s EXCEPT !.sem = @ + 1])

RECURSIVE WakeWhileFree(_)
\* The end of Semaphore.acquire() for a woken waiter:
\* while self._value > 0: if not self._wake_up_next(): break
WakeWhileFree(s) ==
  IF s.sem > 0 /\ Len(Sleeping(s.task)) > 0
    THEN WakeWhileFree(WakeUpNext(s))
    ELSE s

\* ------------------------------------------------------------- tasks

\* Position i finishes while a task at an earlier position has not.
Overtakes(i) == \E j \in 1..(i - 1) : task[j] # "done"

\* fetch_with_semaphore from the moment position i holds a slot up to its
\* first suspension, from the semaphore and task states s: the prefix rule
\* fails and the task returns its result and releases at once, or the GET is
\* issued and the task suspends in flight.
EnterFetch(i, s) ==
  IF InvalidFormat(dois[i])
    THEN /\ outcome' = [outcome EXCEPT ![i] = InvalidFormatResult(dois[i])]
         /\ sem' = Release([s EXCEPT !.task[i] = "done"]).sem
         /\ task' = Release([s EXCEPT !.task[i] = "done"]).task
         /\ overtaken' = (overtaken \/ Overtakes(i))
         /\ UNCHANGED calls
    ELSE /\ calls' = [calls EXCEPT ![i] = @ + 1]
         /\ sem' = s.sem
         /\ task' = [s.task EXCEPT ![i] = "inflight"]
         /\ UNCHANGED <<outcome, overtaken>>

\* The first step of the task gather made for position i.  The loop runs
\* the tasks in the order gather created them.  `async with semaphore`
\* takes a slot when the semaphore is not locked, else the task queues.
StartTask(i) ==
  /\ pc = "gather"
  /\ task[i] = "new"
  /\ \A j \in 1..(i - 1) : task[j] # "new"
  /\ IF Locked
       THEN /\ waiters' = Append(waiters, i)
            /\ task' = [task EXCEPT ![i] = "waiting"]
            /\ UNCHANGED <<sem, outcome, calls, overtaken>>
       ELSE /\ EnterFetch(i, [task |-> task, sem |-> sem - 1])
            /\ UNCHANGED waiters
  /\ UNCHANGED <<dois, pc, payload, peer_sem>>

\* A woken waiter resumes in Semaphore.acquire(): it leaves the queue with
\* the slot it was handed, wakes further waiters while slots are free, and
\* enters fetch_doi_data.
ResumeTask(i) ==
  /\ pc = "gather"
  /\ task[i] = "woken"
  /\ waiters' = SelectSeq(waiters, LAMBDA j : j # i)
  /\ EnterFetch(i, WakeWhileFree([task |-> task, sem |-> sem]))
  /\ UNCHANGED <<dois, pc, payload, peer_sem>>

\* RespondWith that issues the GET once more after a failed call.
RespondWithRetry(i, resp) ==
  /\ pc = "gather"
  /\ task[i] = "inflight"
  /\ IF resp.kind # "json" /\ calls[i] < 2
       THEN /\ calls' = [calls EXCEPT ![i] = @ + 1]
            /\ UNCHANGED <<outcome, sem, task, overtaken>>
       ELSE /\ outcome' = [outcome EXCEPT ![i] = FetchResult(dois[i], resp)]
            /\ sem' = Release([task |-> [task EXCEPT ![i] = "done"], sem |-> sem]).sem
            /\ task' = Release([task |-> [task EXCEPT ![i] = "done"], sem |-> sem]).task
            /\ overtaken' = (overtaken \/ Overtakes(i))
            /\ UNCHANGED calls
  /\ UNCHANGED <<dois, pc, waiters, payload, peer_sem>>

\* The GET of position i completes with the response resp; the task returns
\* what fetch_doi_data makes of it and `async with` releases the slot.
RespondWith(i, resp) ==
  /\ pc = "gather"
  /\ task[i] = "inflight"
  /\ outcome' = [outcome EXCEPT ![i] = FetchResult(dois[i], resp)]
  /\ sem' = Release([task |-> [task EXCEPT ![i] = "done"], sem |-> sem]).sem
  /\ task' = Release([task |-> [task EXCEPT ![i] = "done"], sem |-> sem]).task
  /\ overtaken' = (overtaken \/ Overtakes(i))
  /\ UNCHANGED <<dois, pc, waiters, calls, payload, peer_sem>>

\* The upstream answers the GET of position i with its response number k.
Respond(i, k) == RespondWith(i, UpstreamResponses(dois[i])[k])

\* The upstream answers the GET of position i with 2xx and record number r.
RespondRecord(i, r) == RespondWith(i, [kind |-> "json", body |-> Record(dois[i], r)])

\* ------------------------------------------------------------- a concurrent call

\* Every call of process_dois makes a semaphore of its own (the first
\* statement of its body).  A second call that the event loop runs beside
\* this one is kept as the counter of its semaphore: each of its fetches
\* takes a slot of that semaphore while its GET is in flight.

\* A fetch of the other call takes a slot of that call's semaphore and
\* issues its GET.
PeerFetch ==
  /\ pc = "gather"
  /\ peer_sem > 0
  /\ peer_sem' = peer_sem - 1
  /\ UNCHANGED <<dois, pc, task, sem, waiters, outcome, calls, overtaken, payload>>

\* A GET of the other call completes and its slot goes back.
PeerRespond ==
  /\ peer_sem < MAX_CONCURRENT_REQUESTS
  /\ peer_sem' = peer_sem + 1
  /\ UNCHANGED <<dois, pc, task, sem, waiters, outcome, calls, overtaken, payload>>

\* ------------------------------------------------------------- csv_dict_from_response_dict

\* The keys copied from the record as they are, in the order they are set.
PlainFields ==
  <<"doi", "doi_url", "is_oa", "oa_status", "genre", "is_paratext",
    "journal_name", "journal_issns", "journal_issn_l", "journal_is_oa",
    "journal_is_in_doaj", "publisher", "published_date", "data_standard">>

\* The keys taken from best_oa_location, in the order they are set.
BestFields ==
  <<"best_oa_url", "best_oa_url_is_pdf", "best_oa_evidence", "best_oa_host",
    "best_oa_version", "best_oa_license">>

\* list(csv_result.keys())
CsvKeys == PlainFields \o BestFields

\* Python's `not v`.
Falsy(v) ==
  \/ v.t = "null"
  \/ v.t = "str" /\ v.v = ""
  \/ v.t = "bool" /\ ~v.v
  \/ v.t = "obj" /\ DOMAIN v.v = {}

\* csv_dict_from_response_dict returned None.
NoRow == [none |-> TRUE]

\* best_location_data after `if not best_location_data`.
BestLocation(data) ==
  IF Falsy(Get(data, "best_oa_location", JNull))
    THEN EmptyDict
    ELSE Get(data, "best_oa_location", JNull).v

\* ProjectionRaises without `if not best_location_data`: None has no .get.
ProjectionRaisesUnguarded(data) ==
  /\ DOMAIN data # {}
  /\ Get(data, "best_oa_location", JNull).t # "obj"

\* A truthy best_oa_location that is no dict has no .get: AttributeError.
ProjectionRaises(data) ==
  /\ DOMAIN data # {}
  /\ ~Falsy(Get(data, "best_oa_location", JNull))
  /\ Get(data, "best_oa_location", JNull).t # "obj"

csv_dict_from_response_dict(data) ==
  IF DOMAIN data = {} THEN NoRow
  ELSE IF ProjectionRaises(data) THEN Raised
  ELSE
    [f \in {CsvKeys[k] : k \in 1..Len(CsvKeys)} |->
       CASE f = "best_oa_url" -> Get(BestLocation(data), "url", JStr(""))
         [] f = "best_oa_url_is_pdf" ->
              JBool(Get(BestLocation(data), "url_for_pdf", JStr("")) # JStr(""))
         [] f = "best_oa_evidence" -> Get(BestLocation(data), "evidence", JNull)
         [] f = "best_oa_host" -> Get(BestLocation(data), "host_type", JNull)
         [] f = "best_oa_version" -> Get(BestLocation(data), "version", JNull)
         [] f = "best_oa_license" -> Get(BestLocation(data), "license", JNull)
         [] OTHER -> Get(data, f, JNull)]

\* ------------------------------------------------------------- process_dois

\* Gather that keeps only the results without "error".
GatherWithoutErrors ==
  SelectSeq([i \in 1..Len(dois) |-> outcome[i]], LAMBDA r : "error" \notin DOMAIN r)

\* results = await asyncio.gather(*tasks): the tasks' results in the order
\* of the tasks, that is of request.dois, whatever order they finished in.
Gather == [i \in Positions |-> outcome[i]]

\* The locals of process_dois before its loop over results.
MergeStart ==
  [doi_results |-> EmptyDict,
   error_results |-> EmptyDict,
   jsonl_results |-> << >>,
   csv_data |-> << >>,
   csv_fieldnames |-> << >>]

\* The part of the loop body under `if "error" not in result`.
MergeSuccess(acc, result) ==
  IF "error" \in DOMAIN result THEN acc
  ELSE
    [acc EXCEPT
       !.jsonl_results = Append(@, result),
       !.csv_fieldnames =
          IF @ = << >> /\ csv_dict_from_response_dict(result) # NoRow
            THEN CsvKeys ELSE @,
       !.csv_data =
          IF csv_dict_from_response_dict(result) # NoRow
            THEN Append(@, csv_dict_from_response_dict(result)) ELSE @]

\* The part of the loop body under `if "error" in result`.
MergeError(acc, result) ==
  IF "error" \notin DOMAIN result THEN acc
  ELSE
    [acc EXCEPT
       !.error_results =
          Put(@, result["doi"].v,
              [error |-> Get(result, "error", JNull),
               message |-> Get(result, "message", JNull)])]

\* One pass of `for result in results`.
MergeStep(acc, result) ==
  IF "doi" \notin DOMAIN result THEN acc
  ELSE
    MergeError(
      MergeSuccess(
        [acc EXCEPT !.doi_results = Put(@, result["doi"].v, result)],
        result),
      result)

RECURSIVE MergeLoop(_, _, _)
\* The loop over results from element k on.
MergeLoop(acc, results, k) ==
  IF k > Len(results) THEN acc
  ELSE MergeLoop(MergeStep(acc, results[k]), results, k + 1)

\* json.dumps(item): one line of text that holds the object.
JsonDumps(item) == [tok |-> "json", v |-> item]

Newline == [tok |-> "nl"]

RECURSIVE JsonlOutputPrepending(_)
\* JsonlOutput with each line put in front of the text so far.
JsonlOutputPrepending(items) ==
  IF items = << >> THEN << >>
  ELSE JsonlOutputPrepending(Tail(items)) \o <<[tok |-> "json", v |-> Head(items)], [tok |-> "nl"]>>

RECURSIVE JsonlOutput(_)
\* jsonl_output: for each item, json.dumps(item) + "\n" appended.
JsonlOutput(items) ==
  IF items = << >> THEN << >>
  ELSE <<JsonDumps(Head(items)), Newline>> \o JsonlOutput(Tail(items))

\* What csv.DictWriter writes in a cell: str(value), None as "".
CsvCell(v) ==
  CASE v.t = "null" -> ""
    [] v.t = "str" -> v.v
    [] v.t = "bool" -> IF v.v THEN "True" ELSE "False"
    [] v.t = "obj" -> "str(dict)"

\* writer.writerow(row): its cells in the order of fieldnames.
CsvLine(row, fieldnames) ==
  [k \in 1..Len(fieldnames) |-> CsvCell(row[fieldnames[k]])]

\* CsvOutput that writes the header whether or not there are rows.
CsvOutputHeaderAlways(csv_data, csv_fieldnames) ==
  <<csv_fieldnames>>
  \o [k \in 1..Len(csv_data) |-> CsvLine(csv_data[k], csv_fieldnames)]

\* csv_output: the lines written, the header first; "" without rows.
CsvOutput(csv_data, csv_fieldnames) ==
  IF csv_data = << >> THEN << >>
  ELSE <<csv_fieldnames>>
       \o [k \in 1..Len(csv_data) |-> CsvLine(csv_data[k], csv_fieldnames)]

\* SuccessCount counting only the results the loop keeps.
SuccessCountKeyed(results) ==
  Cardinality({k \in 1..Len(results) :
                 "doi" \in DOMAIN results[k] /\ "error" \notin DOMAIN results[k]})

\* SuccessCount counting each DOI once.
SuccessCountDistinct(results) ==
  Cardinality({results[k]["doi"] : k \in {j \in 1..Len(results) :
                 "doi" \in DOMAIN results[j] /\ "error" \notin DOMAIN results[j]}})

\* len([r for r in results if "error" not in r])
SuccessCount(results) ==
  Cardinality({k \in 1..Len(results) : "error" \notin DOMAIN results[k]})

\* len([r for r in results if "error" in r])
ErrorCount(results) ==
  Cardinality({k \in 1..Len(results) : "error" \in DOMAIN results[k]})

\* The dict process_dois returns for the gathered results, merged being
\* its locals after the loop.
Payload(results, merged) ==
  [results |-> merged.doi_results,
   errors_dict |-> merged.error_results,
   total |-> Len(results),
   success |-> SuccessCount(results),
   errors |-> ErrorCount(results),
   jsonl |-> JsonlOutput(merged.jsonl_results),
   csv |-> CsvOutput(merged.csv_data, merged.csv_fieldnames)]

\* An exception leaves process_dois: a task raised into gather, or the
\* projection of a gathered result raised in the loop.
CallFails(results) ==
  \E k \in 1..Len(results) :
    \/ results[k] = Raised
    \/ /\ "doi" \in DOMAIN results[k]
       /\ "error" \notin DOMAIN results[k]
       /\ ProjectionRaises(results[k])

\* Return that does not wait for gather: the loop merges what there is.
ReturnEarly ==
  /\ pc = "gather"
  /\ pc' = "returned"
  /\ payload' = Payload(Gather, MergeLoop(MergeStart, Gather, 1))
  /\ UNCHANGED <<dois, task, sem, waiters, outcome, calls, overtaken, peer_sem>>

\* Every task has finished: gather returns, the loop merges the results and
\* process_dois returns the payload.
Return ==
  /\ pc = "gather"
  /\ \A i \in Positions : task[i] = "done"
  /\ IF CallFails(Gather)
       THEN pc' = "failed" /\ UNCHANGED payload
       ELSE /\ pc' = "returned"
            /\ \E merged \in {MergeLoop(MergeStart, Gather, 1)} :
                 payload' = Payload(Gather, merged)
  /\ UNCHANGED <<dois, task, sem, waiters, outcome, calls, overtaken, peer_sem>>

\* ------------------------------------------------------------- specification

Next ==
  \/ Validate
  \/ \E i \in Positions : StartTask(i)
  \/ \E i \in Positions : ResumeTask(i)
  \/ \E i \in Positions : \E k \in 1..ResponseCount : Respond(i, k)
  \/ Return

Spec == Init /\ [][Next]_vars

\* Progress does not depend on how a DOI is spelled: the accepted request
\* lists of one DOI and one string that is not a DOI.
LiveInit ==
  /\ Init
  /\ ~TooMany(dois)
  /\ \A i \in 1..Len(dois) : dois[i] \in {"10.a", "not-a-doi"}

\* Fair scheduling: the event loop does not stop while a task is ready to run
\* or a GET is outstanding (REQUEST_TIMEOUT ends a call that gets no
\* response), so a step that stays possible is taken.
LiveSpec == LiveInit /\ [][Next]_vars /\ WF_vars(Next)

\* A request for one DOI against an upstream that answers 2xx with any of
\* the numbered records: the call as it runs csv_dict_from_response_dict on
\* each of them.
ProjectionInit == Init /\ dois = <<"10.a">>

ProjectionNext ==
  \/ Validate
  \/ \E i \in Positions : StartTask(i)
  \/ \E i \in Positions : \E r \in 1..RecordCount : RespondRecord(i, r)
  \/ Return

ProjectionSpec == ProjectionInit /\ [][ProjectionNext]_vars

\* Two calls of process_dois in one process: this call, for an accepted
\* list, and beside it the fetches of the other.
ConcurrentNext ==
  \/ Validate
  \/ \E i \in Positions : StartTask(i)
  \/ \E i \in Positions : ResumeTask(i)
  \/ \E i \in Positions : \E k \in 1..ResponseCount : Respond(i, k)
  \/ Return
  \/ PeerFetch
  \/ PeerRespond

ConcurrentSpec == LiveInit /\ [][ConcurrentNext]_vars

\* ------------------------------------------------------------- properties

\* The positions that hold a slot of the semaphore: acquired, not released.
Active == {i \in Positions : task[i] \in {"woken", "inflight"}}

\* r is an error result produced for the identifier d.
IsErrorFor(r, d) ==
  /\ DOMAIN r = {"doi", "error", "message"}
  /\ r["doi"] = JStr(d)

\* r carries the tag "error".
IsError(r) == "error" \in DOMAIN r

\* r is a record the upstream returned.
IsSuccess(r) == r # Pending /\ r # Raised /\ ~IsError(r)

\* C1: at every moment of a batch call, at most MAX_CONCURRENT_REQUESTS
\* fetches hold the semaphore, whatever the length of the request list.
C1_AtMostKActive == Cardinality(Active) <= MAX_CONCURRENT_REQUESTS

\* C1 witness: the list is longer than the cap, the cap is reached and a
\* further fetch is kept waiting.
C1_Witness ==
  /\ Len(dois) > MAX_CONCURRENT_REQUESTS
  /\ Cardinality(Active) = MAX_CONCURRENT_REQUESTS
  /\ \E i \in Positions : task[i] = "waiting"

\* C2: when the call returns, every position of the request list has
\* exactly one outcome and the reported total is the length of the list.
C2_OneOutcomePerPosition ==
  pc = "returned" =>
    /\ payload.total = Len(dois)
    /\ \A i \in Positions : outcome[i] # Pending

\* C2 witness: a list of three returned with successes and failures mixed.
C2_Witness ==
  /\ pc = "returned"
  /\ Len(dois) = 3
  /\ payload.total = 3
  /\ \E i, j \in Positions : IsError(outcome[i]) /\ IsSuccess(outcome[j])

\* C3: a fetch that fails (non-2xx status, transport failure, any other
\* exception, or an identifier that fails the prefix rule) leaves an error
\* result for its own identifier, changes no other position's outcome, and
\* the call never ends in an exception.
C3_FailureIsolation ==
  /\ [](pc # "failed")
  /\ [][\A i \in Positions :
          (task[i] # "done" /\ task'[i] = "done") =>
             /\ \A j \in Positions \ {i} : outcome'[j] = outcome[j]
             /\ outcome'[i] # Raised
             /\ (IsError(outcome'[i]) => IsErrorFor(outcome'[i], dois[i]))
             /\ (~StartsWith(dois[i], "10.") => IsError(outcome'[i]))]_vars
  /\ [](pc = "returned" =>
          /\ payload # NoPayload
          /\ payload.errors = Cardinality({i \in Positions : IsError(outcome[i])}))

\* C3 witness: the call returned although every identifier failed, in more
\* than one way.
C3_Witness ==
  /\ pc = "returned"
  /\ Len(dois) >= 2
  /\ \A i \in Positions : IsError(outcome[i])
  /\ payload.errors = Len(dois)
  /\ \E i, j \in Positions :
       /\ outcome[i]["error"] = JStr("Invalid DOI format")
       /\ outcome[j]["error"] = JStr("Unexpected error")

\* C4: in every payload, success + errors = total = the length of the
\* request list, success and errors being the numbers of outcomes without
\* and with the tag "error".
C4_CountsAddUp ==
  pc = "returned" =>
    /\ payload.success + payload.errors = payload.total
    /\ payload.total = Len(dois)
    /\ payload.success = Cardinality({i \in Positions : IsSuccess(outcome[i])})
    /\ payload.errors = Cardinality({i \in Positions : IsError(outcome[i])})

\* C4 witness: a payload with successes, one of them a record without
\* "doi", and errors.
C4_Witness ==
  /\ pc = "returned"
  /\ payload.success >= 2
  /\ payload.errors >= 1
  /\ \E i \in Positions : IsSuccess(outcome[i]) /\ "doi" \notin DOMAIN outcome[i]

\* C5: the results mapping has exactly one entry per distinct identifier
\* of the request list, keyed by that identifier.
C5_OneEntryPerIdentifier ==
  pc = "returned" =>
    /\ DOMAIN payload.results = {dois[i] : i \in Positions}
    /\ Cardinality(DOMAIN payload.results) = Cardinality({dois[i] : i \in Positions})

\* C6: for an identifier d that occurs more than once in the request list,
\* results[d] is the outcome of the last occurrence of d.
C6_LastOccurrenceWins ==
  pc = "returned" =>
    \A i \in Positions :
      (/\ \E j \in Positions : j < i /\ dois[j] = dois[i]
       /\ \A j \in Positions : j > i => dois[j] # dois[i]) =>
         /\ dois[i] \in DOMAIN payload.results
         /\ payload.results[dois[i]] = outcome[i]

\* C7: an identifier that does not start with "10." makes no upstream call
\* and ends as an "Invalid DOI format" error for itself; an identifier that
\* starts with "10." makes its upstream call once it holds a slot.
C7_PrefixRule ==
  \A i \in Positions :
    IF Len(dois[i]) >= 3 /\ SubSeq(dois[i], 1, 3) = "10."
      THEN task[i] \in {"inflight", "done"} => calls[i] = 1
      ELSE /\ calls[i] = 0
           /\ task[i] # "inflight"
           /\ task[i] = "done" =>
                /\ IsErrorFor(outcome[i], dois[i])
                /\ outcome[i]["error"] = JStr("Invalid DOI format")

\* C7 witness: a finished batch holding "10" (no call, an error) beside an
\* identifier that was fetched.
C7_Witness ==
  /\ pc = "returned"
  /\ \E i, j \in Positions :
       /\ dois[i] = "10" /\ calls[i] = 0 /\ IsError(outcome[i])
       /\ dois[j] = "10.a" /\ calls[j] = 1 /\ IsSuccess(outcome[j])

\* The number of lines of a jsonl text.
LineCount(text) == Cardinality({k \in 1..Len(text) : text[k] = Newline})

\* The number of rows of a csv text after its header.
DataRowCount(text) == IF text = << >> THEN 0 ELSE Len(text) - 1

\* C8: the jsonl text has as many lines, and the csv text as many data
\* rows, as the reported success count.
C8_LinesAndRowsEqualSuccess ==
  pc = "returned" =>
    /\ LineCount(payload.jsonl) = payload.success
    /\ DataRowCount(payload.csv) = payload.success

\* C9: every fetch holds exactly one slot while it is active, and under fair
\* scheduling every fetch finishes and the call returns.
C9_Progress ==
  /\ [](sem + Cardinality(Active) = MAX_CONCURRENT_REQUESTS)
  /\ <>(pc = "returned" /\ \A i \in Positions : task[i] = "done")

\* C9 witness: a list longer than the cap, every identifier fetched, one of
\* them failing in transport and finishing out of order, and the call
\* returned with the others' records.
C9_Witness ==
  /\ pc = "returned"
  /\ Len(dois) > MAX_CONCURRENT_REQUESTS
  /\ overtaken
  /\ \A i \in Positions : calls[i] = 1
  /\ \E i \in Positions : IsError(outcome[i]) /\ outcome[i]["error"] = JStr("Request error")
  /\ payload.success = Len(dois) - 1

\* The records of a jsonl text, line by line.
JsonlRecords(text) == [k \in 1..(Len(text) \div 2) |-> text[2 * k - 1].v]

\* A jsonl text is records and newlines in turn.
OneRecordPerLine(text) ==
  /\ Len(text) % 2 = 0
  /\ \A k \in 1..Len(text) :
       IF k % 2 = 1 THEN text[k].tok = "json" ELSE text[k] = Newline

RECURSIVE IsSubsequence(_, _)
\* a is b with some of its elements left out.
IsSubsequence(a, b) ==
  IF a = << >> THEN TRUE
  ELSE IF b = << >> THEN FALSE
  ELSE IF Head(a) = Head(b)
    THEN IsSubsequence(Tail(a), Tail(b)) \/ IsSubsequence(a, Tail(b))
    ELSE IsSubsequence(a, Tail(b))

\* The records of the successful positions in the order of the request list.
SuccessRecords == SelectSeq([i \in Positions |-> outcome[i]], IsSuccess)

\* C10: the jsonl text holds one record per line, the records in the order
\* their identifiers have in the request list whatever order the fetches
\* finished in, and it is empty when no identifier succeeded.
C10_JsonlInRequestOrder ==
  pc = "returned" =>
    /\ OneRecordPerLine(payload.jsonl)
    /\ IsSubsequence(JsonlRecords(payload.jsonl), SuccessRecords)
    /\ (SuccessRecords = << >> => payload.jsonl = << >>)

\* C10 witness: fetches finished out of request order and the text holds
\* two different records.
C10_Witness ==
  /\ pc = "returned"
  /\ overtaken
  /\ Len(payload.jsonl) = 4
  /\ payload.jsonl[1] # payload.jsonl[3]
  /\ payload.errors >= 1

\* The place of a column in the table.
ColumnOf(name) == CHOOSE k \in 1..Len(CsvKeys) : CsvKeys[k] = name

\* The record's best_oa_location is an object whose "url_for_pdf" is a
\* non-empty string.
HasPdfUrl(data) ==
  /\ "best_oa_location" \in DOMAIN data
  /\ data["best_oa_location"].t = "obj"
  /\ "url_for_pdf" \in DOMAIN data["best_oa_location"].v
  /\ data["best_oa_location"].v["url_for_pdf"].t = "str"
  /\ data["best_oa_location"].v["url_for_pdf"].v # ""

\* The call returned the table of one record: a header and one row.
OneRowTable == pc = "returned" /\ Len(dois) = 1 /\ Len(payload.csv) = 2

\* C11: in the table row of a record, best_oa_url_is_pdf is true exactly
\* when the record's best_oa_location is an object whose url_for_pdf is a
\* non-empty string, and false when the field is absent, empty or null or
\* the sub-object is absent or null.
C11_IsPdfIffNonEmptyString ==
  OneRowTable =>
    /\ csv_dict_from_response_dict(outcome[1])["best_oa_url_is_pdf"]
          = JBool(HasPdfUrl(outcome[1]))
    /\ payload.csv[2][ColumnOf("best_oa_url_is_pdf")]
          = (IF HasPdfUrl(outcome[1]) THEN "True" ELSE "False")

\* r is a record of the upstream that names its DOI.
IsRecord(r) == IsSuccess(r) /\ "doi" \in DOMAIN r

\* The call returned for a valid DOI, an identifier that is no DOI and the
\* valid DOI again, the upstream having answered both GETs with a record.
DuplicateScenario ==
  /\ pc = "returned"
  /\ dois = <<"10.a", "not-a-doi", "10.a">>
  /\ IsRecord(outcome[1])
  /\ IsRecord(outcome[3])

\* C12 as stated: the scenario ends with total = 3, two keys in results,
\* errors = 1 and success = 1.
C12_ScenarioAsStated ==
  DuplicateScenario =>
    /\ payload.total = 3
    /\ Cardinality(DOMAIN payload.results) = 2
    /\ payload.errors = 1
    /\ payload.success = 1

\* C12 amended: the scenario ends with total = 3, two keys in results (the
\* duplicate collapses), errors = 1 (the invalid format, for which no call
\* was made) and success = 2, one for each occurrence of the valid DOI.
C12_ScenarioCounts ==
  DuplicateScenario =>
    /\ payload.total = 3
    /\ DOMAIN payload.results = {"10.a", "not-a-doi"}
    /\ payload.errors = 1
    /\ DOMAIN payload.errors_dict = {"not-a-doi"}
    /\ payload.errors_dict["not-a-doi"].error = JStr("Invalid DOI format")
    /\ calls = <<1, 0, 1>>
    /\ payload.success = 2

\* C12 witness: the scenario happens, with full records.
C12_Witness ==
  /\ DuplicateScenario
  /\ outcome[1] = FullRecord("10.a")
  /\ outcome[3] = FullRecord("10.a")

\* No fetch of the call has begun: no task has started, no GET was issued
\* and every slot of the semaphore is free.
NothingStarted ==
  /\ \A i \in Positions : task[i] = "new" /\ calls[i] = 0 /\ outcome[i] = Pending
  /\ sem = MAX_CONCURRENT_REQUESTS
  /\ waiters = << >>
  /\ payload = NoPayload

\* C13: a request list longer than MAX_DOIS_PER_REQUEST is rejected before
\* any fetch begins (no upstream call, no slot taken), and a list of at most
\* MAX_DOIS_PER_REQUEST identifiers is never rejected.
C13_SizeLimit ==
  /\ pc = "rejected" => Len(dois) > MAX_DOIS_PER_REQUEST
  /\ Len(dois) > MAX_DOIS_PER_REQUEST => pc \in {"validate", "rejected"} /\ NothingStarted
  /\ pc = "validate" => NothingStarted

\* C13 witness: a list one longer than the maximum was rejected, nothing
\* having started.
C13_Witness ==
  /\ pc = "rejected"
  /\ Len(dois) = MAX_DOIS_PER_REQUEST + 1
  /\ NothingStarted

\* A list of exactly the maximum length went through and was fetched.
C13_WitnessAccepted ==
  /\ pc = "returned"
  /\ Len(dois) = MAX_DOIS_PER_REQUEST
  /\ \A i \in Positions : calls[i] = 1

\* C14: for the empty request list the call makes no upstream call and
\* returns total = 0, success = 0, errors = 0, the empty jsonl text, the
\* empty csv text (no header), and empty results and errors_dict.
C14_EmptyList ==
  Len(dois) = 0 =>
    /\ pc \in {"validate", "gather", "returned"}
    /\ calls = << >>
    /\ sem = MAX_CONCURRENT_REQUESTS
    /\ pc = "returned" =>
         payload = [results |-> EmptyDict,
                    errors_dict |-> EmptyDict,
                    total |-> 0,
                    success |-> 0,
                    errors |-> 0,
                    jsonl |-> << >>,
                    csv |-> << >>]

\* C14 witness: the call for the empty list has returned.
C14_Witness ==
  /\ dois = << >>
  /\ pc = "returned"
  /\ payload.total = 0
  /\ payload.csv = << >>

\* The record has the upstream's shape: its best_oa_location, when it has
\* one, is null or an object.
RecordShaped(data) ==
  "best_oa_location" \in DOMAIN data =>
    data["best_oa_location"].t \in {"null", "obj"}

\* The record has no best location: the key is absent or its value null.
LacksBestLocation(data) ==
  "best_oa_location" \in DOMAIN data => data["best_oa_location"] = JNull

\* The key of best_oa_location a column of the table is read from.
BestKeyOf(column) ==
  CASE column = "best_oa_url" -> "url"
    [] column = "best_oa_url_is_pdf" -> "url_for_pdf"
    [] column = "best_oa_evidence" -> "evidence"
    [] column = "best_oa_host" -> "host_type"
    [] column = "best_oa_version" -> "version"
    [] column = "best_oa_license" -> "license"

\* The cell of the one row of the table under a column.
CellOf(column) == payload.csv[2][ColumnOf(column)]

C15_WitnessAbsent ==
  /\ OneRowTable
  /\ DOMAIN outcome[1] = {"doi"}
  /\ CellOf("best_oa_url_is_pdf") = "False"

\* Every dispatched fetch has produced its outcome.
AllFetched == \A i \in Positions : task[i] = "done" /\ outcome[i] # Pending

\* C16: nothing is merged (results, errors_dict, the encodings: the
\* payload) while a fetch of the batch is unfinished; the merge happens in
\* one step after every fetch has produced its outcome and changes no
\* outcome, and a fetch writes no outcome but its own.
C16_MergeAfterAllFetches ==
  /\ [](payload # NoPayload => AllFetched)
  /\ [][payload' # payload =>
          /\ AllFetched
          /\ outcome' = outcome
          /\ task' = task]_vars
  /\ [][\A i \in Positions :
          outcome'[i] # outcome[i] =>
            /\ payload' = payload
            /\ payload = NoPayload
            /\ \A j \in Positions \ {i} : outcome'[j] = outcome[j]]_vars

\* C16 witness: one fetch has produced its outcome, a later one is still
\* in flight, and nothing has been merged.
C16_Witness ==
  /\ Len(dois) >= 2
  /\ task[1] = "done"
  /\ IsError(outcome[1])
  /\ task[2] = "inflight"
  /\ payload = NoPayload
  /\ pc = "gather"

\* C17: each position of the request list causes at most one upstream GET,
\* issued when its task enters fetch_doi_data; whatever the call does, the
\* task is finished by it, and a finished position keeps its outcome: a
\* failed call is not repeated and its error is final.
C17_SingleAttempt ==
  /\ [](\A i \in Positions : calls[i] <= 1)
  /\ [][\A i \in Positions :
          /\ calls'[i] # calls[i] =>
               /\ calls[i] = 0
               /\ task[i] \in {"new", "woken"}
               /\ task'[i] = "inflight"
          /\ (task[i] = "inflight" /\ task'[i] # "inflight") =>
               /\ task'[i] = "done"
               /\ outcome'[i] # Pending
          /\ task[i] = "done" =>
               /\ task'[i] = "done"
               /\ outcome'[i] = outcome[i]
               /\ calls'[i] = calls[i]]_vars

\* C17 witness: the only call made for a DOI ended in a 404 and the batch
\* returned that error after one GET.
C17_Witness ==
  /\ pc = "returned"
  /\ Len(dois) = 1
  /\ calls = <<1>>
  /\ IsError(outcome[1])
  /\ outcome[1]["error"] = JStr("HTTP error: 404")
  /\ payload.errors = 1

\* Every identifier of the request list is spelled as the upstream spells
\* it, so that a record and an error for it have the same key.
SpelledAsUpstream == \A i \in Positions : Lower(dois[i]) = dois[i]

\* C18: in the payload an identifier is a key of errors_dict exactly when
\* results holds an error outcome for it, and errors_dict then carries that
\* outcome's error and message; also when an identifier occurs more than
\* once and its occurrences end differently.
C18_ErrorsDictIsErrorSubset ==
  (pc = "returned" /\ SpelledAsUpstream) =>
    /\ DOMAIN payload.errors_dict =
         {d \in DOMAIN payload.results : IsError(payload.results[d])}
    /\ \A d \in DOMAIN payload.errors_dict :
         /\ d \in DOMAIN payload.results
         /\ IsError(payload.results[d])
         /\ payload.errors_dict[d].error = payload.results[d]["error"]
         /\ payload.errors_dict[d].message = payload.results[d]["message"]

\* The upstream calls in flight in the process: those of this call and
\* those of the other, each of which holds a slot of the other's semaphore.
InFlightInProcess ==
  Cardinality({i \in Positions : task[i] = "inflight"})
    + (MAX_CONCURRENT_REQUESTS - peer_sem)

\* C19: with two batch calls running in the same process, the upstream
\* calls in flight across both number at most MAX_CONCURRENT_REQUESTS.
C19_CapAcrossCalls == InFlightInProcess <= MAX_CONCURRENT_REQUESTS

====
